---------------------------- MODULE Spec2Model ----------------------------
(***************************************************************************)
(* Model of the gateway metrics package: the join functions (mixIn,        *)
(* mixCPU, mixMemory, mixTime), the handler returned by AddMetricsHandler, *)
(* and the Exporter (Collect, calc, StartServiceWatcher).                  *)
(*                                                                         *)
(* Strings that the code formats or parses are sequences of one-character  *)
(* strings, so that fmt.Sprintf("%s.%s", ..) and strconv.ParseFloat are    *)
(* computed, not assumed.  A float64 is a record: a non-negative rational  *)
(* n/d in lowest terms, NaN or +Inf.  The sample values of the model are   *)
(* small integers, on which float64 addition is exact.                     *)
(***************************************************************************)
EXTENDS Integers, Sequences, FiniteSets, TLC

VARIABLES
    \* join functions applied to drawn inputs
    mfunctions, metrics, mixed,
    \* one request through the handler returned by AddMetricsHandler
    pc, upstream, functions, fetched, resp,
    \* the Exporter: snapshot, gauge vectors, what the last Collect emitted
    services, cpuGauge, memGauge, replicaGauge, emitted, seenNonzero,
    \* what the last watcher tick asked the provider and was answered
    watched,
    \* the Exporter's snapshot word by word, watcher against Collect
    hdr, wpc, wnew, cpc, rd, stored

mixVars      == <<mfunctions, metrics, mixed>>
handlerVars  == <<pc, upstream, functions, fetched, resp>>
exporterVars == <<services, cpuGauge, memGauge, replicaGauge, emitted, seenNonzero,
                  watched>>
raceVars     == <<hdr, wpc, wnew, cpc, rd, stored>>
vars == <<mixVars, handlerVars, exporterVars, raceVars>>

----------------------------------------------------------------------------
\* Bounds of the model.
MaxFunctions == 2
MaxSamples == 3

\* All sequences over S of length at most n.
SeqsUpTo(S, n) == UNION {[1..k -> S] : k \in 0..n}

\* Those without a repeated element: a provider lists a function once.
DistinctSeqsUpTo(S, n) ==
    {s \in SeqsUpTo(S, n) : \A a, b \in 1..Len(s) : s[a] = s[b] => a = b}

----------------------------------------------------------------------------
\* float64

F(n) == [k |-> "num", n |-> n, d |-> 1]
NaN == [k |-> "nan", n |-> 0, d |-> 1]
Inf == [k |-> "inf", n |-> 0, d |-> 1]

RECURSIVE GCD(_, _)
GCD(a, b) == IF b = 0 THEN a ELSE GCD(b, a % b)

Ratio(n, d) == LET g == GCD(n, d) IN [k |-> "num", n |-> n \div g, d |-> d \div g]

\* a + b
FAdd(a, b) ==
    IF a.k = "nan" \/ b.k = "nan" THEN NaN
    ELSE IF a.k = "inf" \/ b.k = "inf" THEN Inf
    ELSE Ratio(a.n * b.d + b.n * a.d, a.d * b.d)

\* a / b: 0/0 is NaN and x/0 is +Inf, no fault is raised
FDiv(a, b) ==
    IF a.k = "nan" \/ b.k = "nan" THEN NaN
    ELSE IF a.k = "inf" THEN (IF b.k = "inf" THEN NaN ELSE Inf)
    ELSE IF b.k = "inf" THEN F(0)
    ELSE IF b.n = 0 THEN (IF a.n = 0 THEN NaN ELSE Inf)
    ELSE Ratio(a.n * b.d, a.d * b.n)

DigitVal == ("0" :> 0) @@ ("1" :> 1) @@ ("2" :> 2) @@ ("3" :> 3) @@ ("4" :> 4)
            @@ ("5" :> 5) @@ ("6" :> 6) @@ ("7" :> 7) @@ ("8" :> 8) @@ ("9" :> 9)

RECURSIVE DecVal(_)
DecVal(s) == IF s = <<>> THEN 0
             ELSE DecVal(SubSeq(s, 1, Len(s) - 1)) * 10 + DigitVal[s[Len(s)]]

\* strconv.ParseFloat(value, 64) on the values of the model: a run of decimal
\* digits, "NaN", or text that is no number.
ParseFloat(s) ==
    IF s = <<"N", "a", "N">> THEN [err |-> FALSE, f |-> NaN]
    ELSE IF Len(s) > 0 /\ \A i \in 1..Len(s) : s[i] \in DOMAIN DigitVal
         THEN [err |-> FALSE, f |-> F(DecVal(s))]
    ELSE [err |-> TRUE, f |-> F(0)]

\* fmt.Sprintf("%s.%s", a, b)
SprintfDot(a, b) == a \o <<".">> \o b

----------------------------------------------------------------------------
\* Records and samples.

\* A pointer to FunctionResources: nil, or the pointed-to struct.
NilResources == [nil |-> TRUE, CPU |-> "", Memory |-> ""]
Resources(c, m) == [nil |-> FALSE, CPU |-> c, Memory |-> m]

\* A pointer to FunctionUsage.
NilUsage == [nil |-> TRUE, CPU |-> F(0), TotalMemoryBytes |-> F(0)]
Usage(c, m) == [nil |-> FALSE, CPU |-> c, TotalMemoryBytes |-> m]

\* One sample of a VectorQueryResponse: v.Metric.* and v.Value[1].
Sample(fn, ct, ns, val) ==
    [FunctionName |-> fn, Container |-> ct, Namespace |-> ns, Value |-> val]

Samples ==
    { Sample(<<"f", ".", "a">>, <<"f">>, <<"a">>, <<"1">>),
      Sample(<<"f", ".", "a">>, <<"f">>, <<"a">>, <<"2">>),
      Sample(<<"f", ".", "a">>, <<"f">>, <<"a">>, <<"x">>),
      Sample(<<"f", ".", "a">>, <<>>, <<>>, <<"4">>),
      Sample(<<>>, <<"f">>, <<"b">>, <<"1">>),
      Sample(<<"g", ".", "a">>, <<"g">>, <<"a">>, <<"1", "0">>) }

\* A types.FunctionStatus as the provider lists it.  Fields the handler only
\* copies hold opaque strings ("nil" for an absent map).
ProviderStatus(name, ns, image, limits, requests, labels, count, usage) ==
    [Name |-> name, Namespace |-> ns, Image |-> image,
     EnvProcess |-> "proc", EnvVars |-> "env", Constraints |-> "cons",
     Secrets |-> "sec", Labels |-> labels, Annotations |-> "ann",
     Limits |-> limits, Requests |-> requests,
     ReadOnlyRootFilesystem |-> FALSE,
     InvocationCount |-> count, Replicas |-> 2, AvailableReplicas |-> 1,
     CreatedAt |-> "t0", Usage |-> usage]

ProviderRecords ==
    { ProviderStatus(<<"f">>, <<"a">>, "img-f", NilResources, NilResources,
                     "nil", F(7), Usage(F(3), F(4))),
      ProviderStatus(<<"g">>, <<"a">>, "img-g", Resources("100m", "1G"),
                     Resources("50m", "512M"), "lbl", F(0), NilUsage),
      ProviderStatus(<<"f">>, <<"b">>, "img-f", Resources("100m", ""),
                     NilResources, "lbl", F(0), NilUsage) }

\* The loop body of "Ensure values are empty first": a new FunctionStatus
\* with zeroed metric fields and the other fields copied.
ZeroInit(function) ==
    [InvocationCount |-> F(0),
     InvocationAvgTime |-> F(0),
     Usage |-> Usage(F(0), F(0)),
     Name |-> function.Name,
     Namespace |-> function.Namespace,
     Image |-> function.Image,
     Limits |-> IF function.Limits.nil THEN Resources("", "")
                ELSE Resources(function.Limits.CPU, function.Limits.Memory),
     EnvProcess |-> function.EnvProcess,
     EnvVars |-> function.EnvVars,
     AvailableReplicas |-> function.AvailableReplicas,
     Replicas |-> function.Replicas,
     Requests |-> IF function.Requests.nil THEN Resources("", "")
                  ELSE Resources(function.Requests.CPU, function.Requests.Memory),
     Secrets |-> function.Secrets,
     Labels |-> function.Labels,
     Annotations |-> function.Annotations,
     Constraints |-> function.Constraints,
     ReadOnlyRootFilesystem |-> function.ReadOnlyRootFilesystem,
     CreatedAt |-> function.CreatedAt]

----------------------------------------------------------------------------
\* The join functions.  Each takes the records and metrics.Data.Result; the
\* inner loop runs over the samples in order, for one record.

RECURSIVE mixInLoop(_, _, _)
mixInLoop(function, result, j) ==
    IF j > Len(result) THEN function
    ELSE LET v == result[j] IN
         IF v.FunctionName = SprintfDot(function.Name, function.Namespace)
         THEN LET p == ParseFloat(v.Value) IN
              IF p.err THEN mixInLoop(function, result, j + 1)
              ELSE mixInLoop([function EXCEPT !.InvocationCount = FAdd(@, p.f)],
                             result, j + 1)
         ELSE mixInLoop(function, result, j + 1)

RECURSIVE mixInLoop_Overwrite(_, _, _)
mixInLoop_Overwrite(function, result, j) ==
    IF j > Len(result) THEN function
    ELSE LET v == result[j] IN
         IF v.FunctionName = SprintfDot(function.Name, function.Namespace)
         THEN LET p == ParseFloat(v.Value) IN
              IF p.err THEN mixInLoop_Overwrite(function, result, j + 1)
              ELSE mixInLoop_Overwrite([function EXCEPT !.InvocationCount = p.f],
                                       result, j + 1)
         ELSE mixInLoop_Overwrite(function, result, j + 1)

\* mixIn with "=" for "+=": the last matching sample wins.
mixIn_Overwrite(fs, result) ==
    [i \in 1..Len(fs) |-> mixInLoop_Overwrite(fs[i], result, 1)]

mixIn(fs, result) ==
    [i \in 1..Len(fs) |-> mixInLoop(fs[i], result, 1)]

RECURSIVE mixCPULoop(_, _, _)
mixCPULoop(function, result, j) ==
    IF j > Len(result) THEN function
    ELSE LET v == result[j] IN
         IF v.Container = function.Name /\ v.Namespace = function.Namespace
         THEN LET p == ParseFloat(v.Value) IN
              IF p.err THEN mixCPULoop(function, result, j + 1)
              ELSE mixCPULoop([function EXCEPT !.Usage.CPU = FAdd(@, p.f)],
                              result, j + 1)
         ELSE mixCPULoop(function, result, j + 1)

mixCPU(fs, result) ==
    [i \in 1..Len(fs) |-> mixCPULoop(fs[i], result, 1)]

RECURSIVE mixMemoryLoop(_, _, _)
mixMemoryLoop(function, result, j) ==
    IF j > Len(result) THEN function
    ELSE LET v == result[j] IN
         IF v.Container = function.Name /\ v.Namespace = function.Namespace
         THEN LET p == ParseFloat(v.Value) IN
              IF p.err THEN mixMemoryLoop(function, result, j + 1)
              ELSE mixMemoryLoop(
                       [function EXCEPT !.Usage.TotalMemoryBytes = FAdd(@, p.f)],
                       result, j + 1)
         ELSE mixMemoryLoop(function, result, j + 1)

mixMemory(fs, result) ==
    [i \in 1..Len(fs) |-> mixMemoryLoop(fs[i], result, 1)]

\* mixTime of gateway/metrics/add_metrics.go.  The loop returns the record
\* with the running sum and the running count num.
RECURSIVE mixTimeLoop(_, _, _, _)
mixTimeLoop(function, num, result, j) ==
    IF j > Len(result) THEN [function |-> function, num |-> num]
    ELSE LET v == result[j] IN
         IF v.FunctionName = SprintfDot(function.Name, function.Namespace)
         THEN LET p == ParseFloat(v.Value) IN
              IF p.err THEN mixTimeLoop(function, num, result, j + 1)
              ELSE mixTimeLoop([function EXCEPT !.InvocationAvgTime = FAdd(@, p.f)],
                               num + 1, result, j + 1)
         ELSE mixTimeLoop(function, num, result, j + 1)

mixTime(fs, result) ==
    [i \in 1..Len(fs) |->
        LET r == mixTimeLoop(fs[i], 0, result, 1) IN
        IF r.num # 0
        THEN [r.function EXCEPT !.InvocationAvgTime = FDiv(@, F(r.num))]
        ELSE r.function]

\* mixTime of the other version of the handler file: it matches on the
\* container and namespace labels and divides whatever num is.
RECURSIVE mixTimeLoop_v1(_, _, _, _)
mixTimeLoop_v1(function, num, result, j) ==
    IF j > Len(result) THEN [function |-> function, num |-> num]
    ELSE LET v == result[j] IN
         IF v.Container = function.Name /\ v.Namespace = function.Namespace
         THEN LET p == ParseFloat(v.Value) IN
              IF p.err THEN mixTimeLoop_v1(function, num, result, j + 1)
              ELSE mixTimeLoop_v1(
                       [function EXCEPT !.InvocationAvgTime = FAdd(@, p.f)],
                       num + 1, result, j + 1)
         ELSE mixTimeLoop_v1(function, num, result, j + 1)

mixTime_v1(fs, result) ==
    [i \in 1..Len(fs) |->
        LET r == mixTimeLoop_v1(fs[i], 0, result, 1) IN
        [r.function EXCEPT !.InvocationAvgTime = FDiv(@, F(r.num))]]

----------------------------------------------------------------------------
\* Idle values of each part of the state: a specification that exercises one
\* part leaves the others at these.

NoMix == [op |-> "none", out |-> <<>>]
NoResponse == [written |-> FALSE, panic |-> FALSE, status |-> 0,
               contentType |-> "", body |-> <<>>]
NilSlice == [nil |-> TRUE, elems |-> <<>>]
NoUpstream == [Code |-> 0, Body |-> <<>>]
NoEmission == [done |-> FALSE]

MixIdle == /\ mfunctions = <<>>
           /\ metrics = <<>>
           /\ mixed = NoMix

HandlerIdle == /\ pc = "idle"
               /\ upstream = NoUpstream
               /\ functions = NilSlice
               /\ fetched = <<>>
               /\ resp = NoResponse

NoTick == [done |-> FALSE, reply |-> "none",
           listing |-> [namespaces |-> <<>>, err |-> FALSE],
           asked |-> <<>>, before |-> <<>>]

ExporterIdle == /\ services = <<>>
                /\ cpuGauge = <<>>
                /\ memGauge = <<>>
                /\ replicaGauge = <<>>
                /\ emitted = NoEmission
                /\ seenNonzero = {}
                /\ watched = NoTick

RaceIdle == /\ hdr = [ptr |-> <<>>, len |-> 0]
            /\ wpc = "wait"
            /\ wnew = [old |-> <<>>, new |-> <<>>]
            /\ cpc = "idle"
            /\ rd = [ptr |-> <<>>, len |-> 0]
            /\ stored = {<<>>}

----------------------------------------------------------------------------
\* The join functions on drawn inputs: records as the handler's zeroing loop
\* leaves them, and one query result.

ZeroedRecords == {ZeroInit(r) : r \in ProviderRecords}

InitMix == /\ mfunctions \in DistinctSeqsUpTo(ZeroedRecords, MaxFunctions)
           /\ metrics \in SeqsUpTo(Samples, MaxSamples)
           /\ mixed = NoMix
           /\ HandlerIdle /\ ExporterIdle /\ RaceIdle

ApplyMixIn ==
    /\ mixed = NoMix
    /\ mixed' = [op |-> "mixIn", out |-> mixIn(mfunctions, metrics)]
    /\ UNCHANGED <<mfunctions, metrics, handlerVars, exporterVars, raceVars>>

ApplyMixCPU ==
    /\ mixed = NoMix
    /\ mixed' = [op |-> "mixCPU", out |-> mixCPU(mfunctions, metrics)]
    /\ UNCHANGED <<mfunctions, metrics, handlerVars, exporterVars, raceVars>>

ApplyMixMemory ==
    /\ mixed = NoMix
    /\ mixed' = [op |-> "mixMemory", out |-> mixMemory(mfunctions, metrics)]
    /\ UNCHANGED <<mfunctions, metrics, handlerVars, exporterVars, raceVars>>

ApplyMixTime ==
    /\ mixed = NoMix
    /\ mixed' = [op |-> "mixTime", out |-> mixTime(mfunctions, metrics)]
    /\ UNCHANGED <<mfunctions, metrics, handlerVars, exporterVars, raceVars>>

ApplyMixTime_v1 ==
    /\ mixed = NoMix
    /\ mixed' = [op |-> "mixTime_v1", out |-> mixTime_v1(mfunctions, metrics)]
    /\ UNCHANGED <<mfunctions, metrics, handlerVars, exporterVars, raceVars>>

NextMix == \/ ApplyMixIn
           \/ ApplyMixCPU
           \/ ApplyMixMemory
           \/ ApplyMixTime
           \/ ApplyMixTime_v1

SpecMix == InitMix /\ [][NextMix]_vars

----------------------------------------------------------------------------
\* What the claims about the joins speak of.

\* The two matching disciplines.
KeyMatch(rec, v) == v.FunctionName = rec.Name \o <<".">> \o rec.Namespace
LabelMatch(rec, v) == v.Container = rec.Name /\ v.Namespace = rec.Namespace

\* Indices of the samples of ms that match rec and whose value parses.
CountedKey(rec, ms) ==
    {j \in 1..Len(ms) : KeyMatch(rec, ms[j]) /\ ~ParseFloat(ms[j].Value).err}
CountedLabel(rec, ms) ==
    {j \in 1..Len(ms) : LabelMatch(rec, ms[j]) /\ ~ParseFloat(ms[j].Value).err}

\* The arithmetic sum of the parsed values at the indices J (integers here).
RECURSIVE SumAt(_, _)
SumAt(ms, J) ==
    IF J = {} THEN 0
    ELSE LET j == CHOOSE x \in J : TRUE IN
         ParseFloat(ms[j].Value).f.n + SumAt(ms, J \ {j})

\* Orderings[n]: the permutations of 1..n.
Orderings == [n \in 0..MaxSamples |->
                {p \in [1..n -> 1..n] : \A a, b \in 1..n : p[a] = p[b] => a = b}]
Permuted(ms, p) == [i \in 1..Len(ms) |-> ms[p[i]]]

MeanOf(ms, J) ==
    IF J = {} THEN F(0) ELSE Ratio(SumAt(ms, J), Cardinality(J))

\* C7: after either version of mixTime, a record with K > 0 counted samples has
\* InvocationAvgTime equal to their sum divided by K, and a record with none
\* has InvocationAvgTime 0.
C7_MeanEachVersion ==
    /\ mixed.op = "mixTime" =>
         \A i \in 1..Len(mfunctions) :
            mixed.out[i].InvocationAvgTime
                = MeanOf(metrics, CountedKey(mfunctions[i], metrics))
    /\ mixed.op = "mixTime_v1" =>
         \A i \in 1..Len(mfunctions) :
            mixed.out[i].InvocationAvgTime
                = MeanOf(metrics, CountedLabel(mfunctions[i], metrics))

\* The same mean property for mixTime of gateway/metrics/add_metrics.go alone.
MixTimeMeanCurrent ==
    mixed.op = "mixTime" =>
       \A i \in 1..Len(mfunctions) :
          mixed.out[i].InvocationAvgTime
              = MeanOf(metrics, CountedKey(mfunctions[i], metrics))

----------------------------------------------------------------------------
\* The handler returned by AddMetricsHandler (gateway/metrics/add_metrics.go).

StatusOK == 200
StatusInternalServerError == 500

\* Bytes of a body: a sequence of pieces, each a run of text or one JSON
\* document (a list of records, or null).
TextPiece(t) == [t |-> "text", s |-> t, l |-> <<>>]
Text(t) == <<TextPiece(t)>>
JsonList(l) == <<[t |-> "json", s |-> "", l |-> l]>>
JsonNull == <<[t |-> "json", s |-> "null", l |-> <<>>]>>

\* fmt.Fprintln(w, error), the last statement of http.Error
Fprintln(body) == body \o <<TextPiece("\n")>>

\* http.Error(w, error, code)
HttpError(body, code) ==
    [written |-> TRUE, panic |-> FALSE, status |-> code,
     contentType |-> "text/plain; charset=utf-8", body |-> Fprintln(body)]

\* A panic leaves the handler before anything is written; net/http recovers
\* it and drops the connection.
Panicked == [NoResponse EXCEPT !.panic = TRUE]

\* json.Unmarshal(upstreamBody, &function)
Unmarshal(body) ==
    IF Len(body) = 1 /\ body[1].t = "json"
    THEN [err |-> FALSE,
          v |-> IF body[1].s = "null" THEN NilSlice
                ELSE [nil |-> FALSE, elems |-> body[1].l]]
    ELSE [err |-> TRUE, v |-> NilSlice]

Finite(x) == x.k = "num"

\* json.Marshal(functions): a nil slice is null, NaN and Inf are unsupported
\* values.
Marshal(fs) ==
    IF \E i \in 1..Len(fs.elems) :
          \/ ~Finite(fs.elems[i].InvocationCount)
          \/ ~Finite(fs.elems[i].InvocationAvgTime)
          \/ ~Finite(fs.elems[i].Usage.CPU)
          \/ ~Finite(fs.elems[i].Usage.TotalMemoryBytes)
    THEN [err |-> TRUE, bytes |-> <<>>]
    ELSE [err |-> FALSE,
          bytes |-> IF fs.nil THEN JsonNull ELSE JsonList(fs.elems)]

\* Lines 133-142: serialize and write.
WriteOut(fs) ==
    LET m == Marshal(fs) IN
    IF m.err
    THEN HttpError(Text("Error writing response after adding metrics"),
                   StatusInternalServerError)
    ELSE [written |-> TRUE, panic |-> FALSE, status |-> StatusOK,
          contentType |-> "application/json", body |-> m.bytes]

\* The error passthrough with the recorder's own code replaced by 500.
PassThrough_Always500(up) == HttpError(up.Body, StatusInternalServerError)

\* Lines 32-38: the captured status is not 200.
PassThrough(up) == HttpError(up.Body, up.Code)

\* The parse failure answered with the text of the parse error.
ParseFailure_LeakError == HttpError(Text("invalid character 'b'"),
                                    StatusInternalServerError)

\* Lines 43-48: the body does not parse.
ParseFailure == HttpError(Text("Unable to parse list of functions from provider"),
                          StatusInternalServerError)

\* The zeroing loop keeping the provider's invocation count.
ZeroInitAll_KeepCount(function) ==
    [nil |-> Len(function.elems) = 0,
     elems |-> [i \in 1..Len(function.elems) |->
                  [ZeroInit(function.elems[i]) EXCEPT
                      !.InvocationCount = function.elems[i].InvocationCount]]]

\* The zeroing loop dropping the image.
ZeroInitAll_DropImage(function) ==
    [nil |-> Len(function.elems) = 0,
     elems |-> [i \in 1..Len(function.elems) |->
                  [ZeroInit(function.elems[i]) EXCEPT !.Image = ""]]]

\* Lines 50-87: var functions []FunctionStatus, then one append per parsed
\* record; without an append the slice stays nil.
ZeroInitAll(function) ==
    [nil |-> Len(function.elems) = 0,
     elems |-> [i \in 1..Len(function.elems) |-> ZeroInit(function.elems[i])]]

\* What prometheusQuery.Fetch returns: a response and a nil error, or an
\* error with either a nil response or an empty one.
Sample_NaN == Sample(<<"f", ".", "a">>, <<"f">>, <<"a">>, <<"N", "a", "N">>)

HandlerResults ==
    { <<>>,
      << Sample(<<"f", ".", "a">>, <<"f">>, <<"a">>, <<"1">>),
         Sample(<<"f", ".", "a">>, <<"f">>, <<"a">>, <<"x">>),
         Sample(<<"f", ".", "a">>, <<"f">>, <<"a">>, <<"2">>) >>,
      << Sample(<<"g", ".", "a">>, <<"g">>, <<"a">>, <<"1", "0">>),
         Sample(<<>>, <<"f">>, <<"b">>, <<"1">>) >>,
      << Sample_NaN >> }

FetchOutcomes ==
    {[err |-> FALSE, nil |-> FALSE, Result |-> r] : r \in HandlerResults}
    \cup {[err |-> TRUE, nil |-> TRUE, Result |-> <<>>],
          [err |-> TRUE, nil |-> FALSE, Result |-> <<>>]}

UpstreamCodes == {StatusOK, 503}
UpstreamBodies ==
    {JsonList(l) : l \in DistinctSeqsUpTo(ProviderRecords, MaxFunctions)}
    \cup {JsonNull, Text("boom"), <<>>}

InitHandler == HandlerIdle /\ MixIdle /\ ExporterIdle /\ RaceIdle

\* Lines 20-89: run the upstream handler into the recorder, pass an error
\* through, parse, zero.  recorder.Result() always carries a body, so the
\* "Upstream call had empty body" return is never taken.
ServeUpstream(code, body) ==
    /\ pc \in {"idle", "done"}
    /\ upstream' = [Code |-> code, Body |-> body]
    /\ fetched' = <<>>
    /\ IF code # StatusOK
       THEN /\ resp' = PassThrough([Code |-> code, Body |-> body])
            /\ functions' = NilSlice
            /\ pc' = "done"
       ELSE LET u == Unmarshal(body) IN
            IF u.err
            THEN /\ resp' = ParseFailure
                 /\ functions' = NilSlice
                 /\ pc' = "done"
            ELSE /\ functions' = ZeroInitAll(u.v)
                 /\ IF Len(u.v.elems) > 0
                    THEN resp' = NoResponse /\ pc' = "q1"
                    ELSE resp' = WriteOut(ZeroInitAll(u.v)) /\ pc' = "done"
    /\ UNCHANGED <<mixVars, exporterVars, raceVars>>

\* Lines 91-100: the invocation-count query, scoped by functions[0].Namespace,
\* and its join.  mixIn dereferences metrics.
QueryInvocation(o) ==
    /\ pc = "q1"
    /\ fetched' = Append(fetched, [q |-> "invocation", ns |-> functions.elems[1].Namespace,
                                   err |-> o.err, nil |-> o.nil, Result |-> o.Result])
    /\ IF o.nil
       THEN resp' = Panicked /\ pc' = "done" /\ UNCHANGED functions
       ELSE /\ functions' = [functions EXCEPT !.elems = mixIn(@, o.Result)]
            /\ pc' = "q2"
            /\ UNCHANGED resp
    /\ UNCHANGED <<upstream, mixVars, exporterVars, raceVars>>

\* Lines 105-111: the CPU query and its join.  On err1 the log line calls
\* err.Error() on the first query's err, which is nil when that query succeeded.
QueryCPU(o) ==
    /\ pc = "q2"
    /\ fetched' = Append(fetched, [q |-> "cpu", ns |-> <<>>,
                                   err |-> o.err, nil |-> o.nil, Result |-> o.Result])
    /\ IF (o.err /\ ~fetched[1].err) \/ o.nil
       THEN resp' = Panicked /\ pc' = "done" /\ UNCHANGED functions
       ELSE /\ functions' = [functions EXCEPT !.elems = mixCPU(@, o.Result)]
            /\ pc' = "q3"
            /\ UNCHANGED resp
    /\ UNCHANGED <<upstream, mixVars, exporterVars, raceVars>>

\* Lines 115-121: the memory query and its join, with the same log line.
QueryMemory(o) ==
    /\ pc = "q3"
    /\ fetched' = Append(fetched, [q |-> "memory", ns |-> <<>>,
                                   err |-> o.err, nil |-> o.nil, Result |-> o.Result])
    /\ IF (o.err /\ ~fetched[1].err) \/ o.nil
       THEN resp' = Panicked /\ pc' = "done" /\ UNCHANGED functions
       ELSE /\ functions' = [functions EXCEPT !.elems = mixMemory(@, o.Result)]
            /\ pc' = "q4"
            /\ UNCHANGED resp
    /\ UNCHANGED <<upstream, mixVars, exporterVars, raceVars>>

\* Lines 124-142: the latency query and its join, with the same log line, then
\* the response.
QueryTime(o) ==
    /\ pc = "q4"
    /\ fetched' = Append(fetched, [q |-> "time", ns |-> <<>>,
                                   err |-> o.err, nil |-> o.nil, Result |-> o.Result])
    /\ IF (o.err /\ ~fetched[1].err) \/ o.nil
       THEN resp' = Panicked /\ UNCHANGED functions
       ELSE /\ functions' = [functions EXCEPT !.elems = mixTime(@, o.Result)]
            /\ resp' = WriteOut([functions EXCEPT !.elems = mixTime(@, o.Result)])
    /\ pc' = "done"
    /\ UNCHANGED <<upstream, mixVars, exporterVars, raceVars>>

NextHandler ==
    \/ \E code \in UpstreamCodes, body \in UpstreamBodies : ServeUpstream(code, body)
    \/ \E o \in FetchOutcomes : QueryInvocation(o)
    \/ \E o \in FetchOutcomes : QueryCPU(o)
    \/ \E o \in FetchOutcomes : QueryMemory(o)
    \/ \E o \in FetchOutcomes : QueryTime(o)

Spec == InitHandler /\ [][NextHandler]_vars

----------------------------------------------------------------------------
\* What the claims about the handler speak of.

\* The body is one JSON document that json.Unmarshal accepts for a slice.
ParsesAsList(body) == Len(body) = 1 /\ body[1].t = "json"
\* The records of such a body (none for null).
ListOf(body) == body[1].l
\* The body is a JSON array, not null.
IsArray(body) == ParsesAsList(body) /\ body[1].s # "null"

\* The request has ended and its upstream answer was 200 with a record list.
EndedOnList ==
    /\ pc = "done"
    /\ upstream.Code = StatusOK
    /\ ParsesAsList(upstream.Body)

\* The field a query's join fills.
FieldOf(q, rec) ==
    CASE q = "invocation" -> rec.InvocationCount
      [] q = "cpu" -> rec.Usage.CPU
      [] q = "memory" -> rec.Usage.TotalMemoryBytes
      [] q = "time" -> rec.InvocationAvgTime

\* The samples a query's join counts for a record.
CountedFor(q, rec, ms) ==
    IF q \in {"invocation", "time"} THEN CountedKey(rec, ms)
    ELSE CountedLabel(rec, ms)

AllMetricsZero(rec) ==
    /\ rec.InvocationCount = F(0)
    /\ rec.InvocationAvgTime = F(0)
    /\ ~rec.Usage.nil
    /\ rec.Usage.CPU = F(0)
    /\ rec.Usage.TotalMemoryBytes = F(0)

\* C1: a request on a non-empty list in which some query failed (each failed
\* query handing back an empty result with its error, every other sample value
\* being a finite number) still issues all four queries and ends with 200 and all
\* records, the fields of the failed queries being 0.
C1_FailOpen ==
    ( /\ EndedOnList
      /\ Len(ListOf(upstream.Body)) > 0
      /\ \E k \in 1..Len(fetched) : fetched[k].err
      /\ \A k \in 1..Len(fetched) :
            /\ ~fetched[k].nil
            /\ \A j \in 1..Len(fetched[k].Result) :
                  fetched[k].Result[j].Value # <<"N", "a", "N">> )
    => /\ Len(fetched) = 4
       /\ resp.written
       /\ resp.status = StatusOK
       /\ IsArray(resp.body)
       /\ Len(ListOf(resp.body)) = Len(ListOf(upstream.Body))
       /\ \A k \in 1..Len(fetched) :
             fetched[k].err =>
                \A i \in 1..Len(ListOf(resp.body)) :
                   FieldOf(fetched[k].q, ListOf(resp.body)[i]) = F(0)

\* C4 as claimed: a non-200 upstream answer reaches the client with the same
\* status and exactly the captured body, and no query is issued.
C4_PassThroughVerbatim ==
    (pc = "done" /\ upstream.Code # StatusOK)
    => /\ resp.written
       /\ resp.status = upstream.Code
       /\ resp.body = upstream.Body
       /\ fetched = <<>>

\* C4 as amended: a non-200 upstream answer reaches the client with the same
\* status and the captured body followed by one newline, and no query is issued.
C4_PassThroughLine ==
    (pc = "done" /\ upstream.Code # StatusOK)
    => /\ resp.written
       /\ resp.status = upstream.Code
       /\ resp.body = upstream.Body \o <<TextPiece("\n")>>
       /\ fetched = <<>>

\* C4 witness: the upstream answered 503 "boom" and the client got 503.
C4_Witness ==
    /\ pc = "done"
    /\ upstream = [Code |-> 503, Body |-> Text("boom")]
    /\ resp.written
    /\ resp.status = 503

\* C5: before the first join every record has its four metric fields at 0,
\* whatever the upstream body carried; and in a 200 response a record for which
\* a query's result has no counted sample has that query's field at 0.
C5_ZeroedBeforeJoins ==
    /\ pc = "q1" =>
          /\ Len(functions.elems) = Len(ListOf(upstream.Body))
          /\ \A i \in 1..Len(functions.elems) : AllMetricsZero(functions.elems[i])
    /\ (EndedOnList /\ resp.written /\ resp.status = StatusOK) =>
          \A k \in 1..Len(fetched) :
             \A i \in 1..Len(ListOf(resp.body)) :
                CountedFor(fetched[k].q, ListOf(resp.body)[i], fetched[k].Result) = {}
                   => FieldOf(fetched[k].q, ListOf(resp.body)[i]) = F(0)

\* C5 witness: a record that the upstream listed with a nonzero invocation
\* count and usage is answered with 0 for a query that had no sample for it.
C5_Witness ==
    /\ EndedOnList /\ resp.written /\ resp.status = StatusOK
    /\ Len(fetched) = 4
    /\ \E i \in 1..Len(ListOf(resp.body)) :
          /\ ListOf(upstream.Body)[i].InvocationCount = F(7)
          /\ ~ListOf(upstream.Body)[i].Usage.nil
          /\ ListOf(upstream.Body)[i].Usage.CPU = F(3)
          /\ fetched[1].Result = <<>>
          /\ ListOf(resp.body)[i].InvocationCount = F(0)
          /\ CountedLabel(ListOf(resp.body)[i], fetched[2].Result) = {}
          /\ fetched[2].Result # <<>>
          /\ ListOf(resp.body)[i].Usage.CPU = F(0)

\* Every query of the request was issued and returned an empty result.
AllQueriesEmpty ==
    \A k \in 1..Len(fetched) : ~fetched[k].err /\ fetched[k].Result = <<>>

\* The fields the handler copies, limits and requests apart.
CopiedEqual(out, in) ==
    /\ out.Name = in.Name
    /\ out.Namespace = in.Namespace
    /\ out.Image = in.Image
    /\ out.Replicas = in.Replicas
    /\ out.AvailableReplicas = in.AvailableReplicas
    /\ out.EnvProcess = in.EnvProcess
    /\ out.EnvVars = in.EnvVars
    /\ out.Labels = in.Labels
    /\ out.Annotations = in.Annotations
    /\ out.Constraints = in.Constraints
    /\ out.Secrets = in.Secrets
    /\ out.ReadOnlyRootFilesystem = in.ReadOnlyRootFilesystem
    /\ out.CreatedAt = in.CreatedAt

ResourcesAnswered(out, in) ==
    IF in.nil THEN out = Resources("", "") ELSE out = in

C10_ParseFailure ==
    (pc = "done" /\ upstream.Code = StatusOK /\ ~ParsesAsList(upstream.Body))
    => /\ resp.written
       /\ resp.status = StatusInternalServerError
       /\ resp.body = << TextPiece("Unable to parse list of functions from provider"),
                         TextPiece("\n") >>
       /\ fetched = <<>>

\* C10 witness: the upstream answered 200 with "boom" and the client got 500.
C10_Witness ==
    /\ pc = "done"
    /\ upstream = [Code |-> StatusOK, Body |-> Text("boom")]
    /\ resp.written
    /\ resp.status = StatusInternalServerError

\* The order in which the queries of a request are issued.
QueryOrder == <<"invocation", "cpu", "memory", "time">>

\* No query is issued before the upstream handler has answered 200 with a
\* list, the queries issued so far are the first ones of the fixed order, each
\* once, nothing is written while queries are outstanding, and the join of the
\* first query is in the records when the second is about to be issued.
QueriesInOrder ==
    /\ fetched # <<>> => upstream.Code = StatusOK /\ ParsesAsList(upstream.Body)
    /\ Len(fetched) <= 4
    /\ \A k \in 1..Len(fetched) : fetched[k].q = QueryOrder[k]
    /\ pc \in {"q1", "q2", "q3", "q4"} => ~resp.written
    /\ pc = "q2" =>
          functions.elems
             = mixIn(ZeroInitAll(Unmarshal(upstream.Body).v).elems, fetched[1].Result)

\* C15: the upstream handler has answered before any query, the queries are
\* issued in the order invocation count, CPU, memory, latency, each once and
\* each joined before the next, and the response is written after the last
\* join; a request on an empty list ends with no query and 200 with an empty
\* list, a request on a non-empty list ends with all four queries issued and
\* a response written.
C15_QueryOrder ==
    /\ QueriesInOrder
    /\ EndedOnList =>
          IF Len(ListOf(upstream.Body)) = 0
          THEN /\ fetched = <<>>
               /\ resp.written /\ resp.status = StatusOK
               /\ IsArray(resp.body) /\ Len(ListOf(resp.body)) = 0
          ELSE /\ Len(fetched) = 4
               /\ resp.written

----------------------------------------------------------------------------
\* The Exporter: Collect, calc and the loop body of StartServiceWatcher, each
\* run to its end before the next begins.

MaxServices == 1

\* The fields of a types.FunctionStatus that Collect reads.
Service(name, ns, replicas) == [Name |-> name, Namespace |-> ns, Replicas |-> replicas]

\* What the provider may list, by namespace; in namespace "b" it lists a record
\* without a namespace of its own.  Exporter.FunctionNamespace is the namespace
\* asked for when the provider has no namespaces.
FunctionNamespace == <<"a">>
ListedIn(ns) ==
    IF ns = <<"a">> THEN {Service(<<"f">>, <<"a">>, 1), Service(<<"g">>, <<"a">>, 2)}
    ELSE {Service(<<"h">>, <<>>, 3)}

\* A gauge vector: a function from label values to float64.
GaugeSet(g, key, val) ==
    [k \in (DOMAIN g) \cup {key} |-> IF k = key THEN val ELSE g[k]]

\* Lines 72-77: the label of a service.
ServiceName(service) ==
    IF Len(service.Namespace) > 0
    THEN SprintfDot(service.Name, service.Namespace)
    ELSE service.Name

\* Lines 71-87 for the replica gauge: after Reset, one sample per service.
RECURSIVE SetReplicas(_, _, _)
SetReplicas(g, svcs, j) ==
    IF j > Len(svcs) THEN g
    ELSE SetReplicas(GaugeSet(g, ServiceName(svcs[j]), F(svcs[j].Replicas)),
                     svcs, j + 1)

\* The zeroing left out: the gauge is as the last scrape left it.
ZeroGauge_Skip(g, svcs, j) == g

\* Lines 85-86 over the loop of line 71: Set(0) for every service.
RECURSIVE ZeroGauge(_, _, _)
ZeroGauge(g, svcs, j) ==
    IF j > Len(svcs) THEN g
    ELSE ZeroGauge(GaugeSet(g, ServiceName(svcs[j]), F(0)), svcs, j + 1)

\* Add in place of Set: each sample increases what the gauge holds.
RECURSIVE SetFromSamples_Add(_, _, _)
SetFromSamples_Add(g, result, j) ==
    IF j > Len(result) THEN g
    ELSE LET key == SprintfDot(result[j].Container, result[j].Namespace)
             old == IF key \in DOMAIN g THEN g[key] ELSE F(0)
         IN SetFromSamples_Add(
                GaugeSet(g, key, FAdd(old, ParseFloat(result[j].Value).f)),
                result, j + 1)

\* Lines 242-247 and 256-261: Set for every sample in order; the error of
\* ParseFloat is dropped and its 0 is set.
RECURSIVE SetFromSamples(_, _, _)
SetFromSamples(g, result, j) ==
    IF j > Len(result) THEN g
    ELSE SetFromSamples(
             GaugeSet(g, SprintfDot(result[j].Container, result[j].Namespace),
                      ParseFloat(result[j].Value).f),
             result, j + 1)

\* calc going on to the memory query after the CPU query failed.
calc_MemoryAfterCPUError(cpu, mem, o1, o2) ==
    [cpu |-> IF o1.err THEN cpu ELSE SetFromSamples(cpu, o1.Result, 1),
     mem |-> IF o2.err THEN mem ELSE SetFromSamples(mem, o2.Result, 1),
     issued |-> <<[q |-> "cpu", o |-> o1], [q |-> "memory", o |-> o2]>>]

\* Exporter.calc: the gauges it leaves and the queries it issued.  o1 and o2
\* are what Fetch returns for the CPU and the memory query.
calc(cpu, mem, o1, o2) ==
    IF o1.err
    THEN [cpu |-> cpu, mem |-> mem, issued |-> <<[q |-> "cpu", o |-> o1]>>]
    ELSE IF o2.err
    THEN [cpu |-> SetFromSamples(cpu, o1.Result, 1), mem |-> mem,
          issued |-> <<[q |-> "cpu", o |-> o1], [q |-> "memory", o |-> o2]>>]
    ELSE [cpu |-> SetFromSamples(cpu, o1.Result, 1),
          mem |-> SetFromSamples(mem, o2.Result, 1),
          issued |-> <<[q |-> "cpu", o |-> o1], [q |-> "memory", o |-> o2]>>]

\* Lines 64-67: the families emitted before the gauges are rebuilt.
FamiliesBefore == << "gateway_function_invocation_total",
                     "gateway_functions_seconds",
                     "gateway_function_invocation_started" >>

\* Emission given up when a query of calc failed.
FamiliesAfter_SkipOnError(c) ==
    IF \E k \in 1..Len(c.issued) : c.issued[k].o.err THEN <<>>
    ELSE << "gateway_function_request_seconds", "pod_cpu_usage_seconds_total",
            "pod_memory_working_set_bytes", "gateway_service_count" >>

\* Lines 93-97: the families emitted after calc has returned, c being what
\* calc did.
FamiliesAfter(c) ==
    << "gateway_function_request_seconds", "pod_cpu_usage_seconds_total",
       "pod_memory_working_set_bytes", "gateway_service_count" >>

ExporterResults ==
    { <<>>,
      << Sample(<<>>, <<"f">>, <<"a">>, <<"5">>),
         Sample(<<>>, <<"f">>, <<"a">>, <<"6">>) >>,
      << Sample(<<>>, <<"g">>, <<"a">>, <<"x">>) >> }

ExporterOutcomes ==
    {[err |-> FALSE, nil |-> FALSE, Result |-> r] : r \in ExporterResults}
    \cup {[err |-> TRUE, nil |-> TRUE, Result |-> <<>>]}

ServiceNames(svcs) == {ServiceName(svcs[j]) : j \in 1..Len(svcs)}

NonZeroAt(g, k) == k \in DOMAIN g /\ g[k] # F(0)

\* Exporter.Collect.
Collect(o1, o2) ==
    LET rep == SetReplicas(<<>>, services, 1)
        c == calc(ZeroGauge(cpuGauge, services, 1), ZeroGauge(memGauge, services, 1),
                  o1, o2)
    IN /\ replicaGauge' = rep
       /\ cpuGauge' = c.cpu
       /\ memGauge' = c.mem
       /\ emitted' = [done |-> TRUE,
                      families |-> FamiliesBefore \o FamiliesAfter(c),
                      cpu |-> c.cpu, mem |-> c.mem, replicas |-> rep,
                      snapshot |-> services, issued |-> c.issued]
       /\ seenNonzero' = seenNonzero \cup
             {k \in ServiceNames(services) : NonZeroAt(c.cpu, k) \/ NonZeroAt(c.mem, k)}
       /\ watched' = NoTick
       /\ UNCHANGED <<services, mixVars, handlerVars, raceVars>>

\* What the provider answers to GET system/namespaces and system/functions.
\* A body that does not parse may leave the elements decoded before the error.
NamespaceLists == {<<>>, <<<<"a">>>>, <<<<"a">>, <<"b">>>>, <<<<"b">>, <<"a">>>>}
NamespaceReplies ==
    {[kind |-> "transport-error", list |-> <<>>], [kind |-> "not-found", list |-> <<>>]}
    \cup {[kind |-> "ok", list |-> l] : l \in NamespaceLists}
    \cup {[kind |-> "bad-json", list |-> l] : l \in {<<>>, <<<<"a">>>>}}

\* A 404 returned as an error.
getNamespaces_NotFoundIsError(reply) ==
    CASE reply.kind = "transport-error" -> [namespaces |-> <<>>, err |-> TRUE]
      [] reply.kind = "not-found" -> [namespaces |-> <<>>, err |-> TRUE]
      [] reply.kind = "ok" -> [namespaces |-> reply.list, err |-> FALSE]
      [] reply.kind = "bad-json" -> [namespaces |-> reply.list, err |-> TRUE]

\* Exporter.getNamespaces
getNamespaces(reply) ==
    CASE reply.kind = "transport-error" -> [namespaces |-> <<>>, err |-> TRUE]
      [] reply.kind = "not-found" -> [namespaces |-> <<>>, err |-> FALSE]
      [] reply.kind = "ok" -> [namespaces |-> reply.list, err |-> FALSE]
      [] reply.kind = "bad-json" -> [namespaces |-> reply.list, err |-> TRUE]

FunctionReplies(ns) ==
    {[kind |-> "transport-error", list |-> <<>>]}
    \cup {[kind |-> "ok", list |-> l] : l \in DistinctSeqsUpTo(ListedIn(ns), MaxServices)}
    \cup {[kind |-> "bad-json", list |-> <<x>>] : x \in {CHOOSE y \in ListedIn(ns) : TRUE}}

\* Exporter.getFunctions
getFunctions(reply) ==
    CASE reply.kind = "transport-error" -> [services |-> <<>>, err |-> TRUE]
      [] reply.kind = "ok" -> [services |-> reply.list, err |-> FALSE]
      [] reply.kind = "bad-json" -> [services |-> reply.list, err |-> TRUE]

\* The loop left at the first namespace whose fetch failed.
RECURSIVE AppendNamespaces_StopAtError(_, _, _, _)
AppendNamespaces_StopAtError(svcs, namespaces, replies, j) ==
    IF j > Len(namespaces) THEN svcs
    ELSE LET r == getFunctions(replies[namespaces[j]]) IN
         IF r.err THEN svcs
         ELSE AppendNamespaces_StopAtError(svcs \o r.services, namespaces, replies, j + 1)

\* Lines 126-133: the per-namespace loop.
RECURSIVE AppendNamespaces(_, _, _, _)
AppendNamespaces(svcs, namespaces, replies, j) ==
    IF j > Len(namespaces) THEN svcs
    ELSE LET r == getFunctions(replies[namespaces[j]]) IN
         IF r.err THEN AppendNamespaces(svcs, namespaces, replies, j + 1)
         ELSE AppendNamespaces(svcs \o r.services, namespaces, replies, j + 1)

\* The snapshot replaced by whatever the failed fetch returned.
DefaultSnapshot_Replace(old, r) == r.services

\* Lines 118-124: the snapshot after the fetch of the default namespace; on
\* an error the loop continues with the next tick and nothing is stored.
DefaultSnapshot(old, r) == IF r.err THEN old ELSE r.services

\* The calls of getFunctions a tick makes, in order, each with what it returned.
Asked(namespaces, replies) ==
    [j \in 1..Len(namespaces) |->
        [namespace |-> namespaces[j], r |-> getFunctions(replies[namespaces[j]])]]

\* Lines 110-136: one tick of the watcher.  replies gives the provider's
\* answer for each namespace asked.  The scraper has taken the last scrape's
\* output by now: emitted describes a scrape only until the next tick, and
\* watched describes a tick only until the next scrape.
Tick(nsReply, replies) ==
    LET n == getNamespaces(nsReply) IN
    /\ IF Len(n.namespaces) = 0
       THEN LET r == getFunctions(replies[FunctionNamespace]) IN
            /\ services' = DefaultSnapshot(services, r)
            /\ watched' = [done |-> TRUE, reply |-> nsReply.kind, listing |-> n,
                           asked |-> Asked(<<FunctionNamespace>>, replies),
                           before |-> services]
       ELSE /\ services' = AppendNamespaces(<<>>, n.namespaces, replies, 1)
            /\ watched' = [done |-> TRUE, reply |-> nsReply.kind, listing |-> n,
                           asked |-> Asked(n.namespaces, replies),
                           before |-> services]
    /\ emitted' = NoEmission
    /\ UNCHANGED <<cpuGauge, memGauge, replicaGauge, seenNonzero,
                   mixVars, handlerVars, raceVars>>

InitExporter == ExporterIdle /\ MixIdle /\ HandlerIdle /\ RaceIdle

\* The provider answering every call of a tick.
Answered(ns) == {r \in FunctionReplies(ns) : r.kind = "ok"}

\* Scrapes between ticks of a watcher whose provider answers.
NextExporter ==
    \/ \E o1 \in ExporterOutcomes, o2 \in ExporterOutcomes : Collect(o1, o2)
    \/ \E ra \in Answered(<<"a">>), rb \in Answered(<<"b">>) :
          Tick([kind |-> "ok", list |-> << <<"a">>, <<"b">> >>],
               (<<"a">> :> ra) @@ (<<"b">> :> rb))

SpecExporter == InitExporter /\ [][NextExporter]_vars

\* The watcher alone, its provider answering or failing each call.
NextWatcher ==
    \E nsReply \in NamespaceReplies :
       \E ra \in FunctionReplies(<<"a">>), rb \in FunctionReplies(<<"b">>) :
          Tick(nsReply, (<<"a">> :> ra) @@ (<<"b">> :> rb))

SpecWatcher == InitExporter /\ [][NextWatcher]_vars

----------------------------------------------------------------------------
\* What the claims about the Exporter speak of.

ZeroOrAbsent(g, k) == k \notin DOMAIN g \/ g[k] = F(0)

\* The backend returned a sample for the label value k in the last scrape.
SampledInLastScrape(k) ==
    \E q \in 1..Len(emitted.issued) :
       \E j \in 1..Len(emitted.issued[q].o.Result) :
          k = SprintfDot(emitted.issued[q].o.Result[j].Container,
                         emitted.issued[q].o.Result[j].Namespace)

\* C2: a service that had a nonzero CPU or memory gauge at a scrape while in
\* the snapshot, and that is no longer in the snapshot, is scraped with both
\* gauges zero or absent (stated for the scrapes in which the backend has no
\* sample for it any more).
C2_NoStaleGauge ==
    emitted.done =>
       \A k \in seenNonzero :
          (k \notin ServiceNames(emitted.snapshot) /\ ~SampledInLastScrape(k))
             => ZeroOrAbsent(emitted.cpu, k) /\ ZeroOrAbsent(emitted.mem, k)

AllFamilies == << "gateway_function_invocation_total",
                  "gateway_functions_seconds",
                  "gateway_function_invocation_started",
                  "gateway_function_request_seconds",
                  "pod_cpu_usage_seconds_total",
                  "pod_memory_working_set_bytes",
                  "gateway_service_count" >>

\* C9: a Collect returns having emitted the counters, the histogram and summary
\* and the three gauge vectors, each service of the snapshot having its sample in
\* all three, whether or not the CPU query or the memory query failed.
C9_CollectAlwaysEmits ==
    emitted.done =>
       /\ emitted.families = AllFamilies
       /\ emitted.cpu = cpuGauge /\ emitted.mem = memGauge
       /\ emitted.replicas = replicaGauge
       /\ \A k \in ServiceNames(emitted.snapshot) :
             /\ k \in DOMAIN emitted.cpu
             /\ k \in DOMAIN emitted.mem
             /\ k \in DOMAIN emitted.replicas

\* C9 witness: a scrape of a non-empty snapshot whose CPU query failed has
\* emitted every family.
C9_Witness ==
    /\ emitted.done
    /\ emitted.issued[1].o.err
    /\ Len(emitted.snapshot) > 0
    /\ emitted.families = AllFamilies

\* The label value calc sets for a sample.
SampleKey(sample) == SprintfDot(sample.Container, sample.Namespace)

\* Query n of the last scrape answered, and with a sample for the label value k.
Answers(n) == Len(emitted.issued) >= n /\ ~emitted.issued[n].o.err
SampledBy(n, k) ==
    /\ Answers(n)
    /\ \E j \in 1..Len(emitted.issued[n].o.Result) :
          SampleKey(emitted.issued[n].o.Result[j]) = k

\* The value parsed from the last sample of result with the label value k; a
\* value that does not parse gives 0, as ParseFloat returns it.
LastValue(result, k) ==
    LET last == CHOOSE j \in 1..Len(result) :
                   /\ SampleKey(result[j]) = k
                   /\ \A i \in (j + 1)..Len(result) : SampleKey(result[i]) # k
    IN ParseFloat(result[last].Value).f

\* Every sample of result is in the gauge g with the last value for its key.
HoldsLastValues(g, result) ==
    \A j \in 1..Len(result) :
       LET k == SampleKey(result[j]) IN
       k \in DOMAIN g /\ g[k] = LastValue(result, k)

\* C13: a scrape emits a replica gauge holding exactly one sample for each
\* service of the snapshot, equal to its replica count, and none for any other
\* service; and a service of the snapshot for which the CPU query (the memory
\* query) gave no sample is emitted with CPU 0 (memory 0).
C13_ReplicasResetGaugesZeroed ==
    emitted.done =>
       /\ DOMAIN emitted.replicas = ServiceNames(emitted.snapshot)
       /\ \A j \in 1..Len(emitted.snapshot) :
             emitted.replicas[ServiceName(emitted.snapshot[j])]
                = F(emitted.snapshot[j].Replicas)
       /\ \A k \in ServiceNames(emitted.snapshot) :
             /\ ~SampledBy(1, k) => (k \in DOMAIN emitted.cpu /\ emitted.cpu[k] = F(0))
             /\ ~SampledBy(2, k) => (k \in DOMAIN emitted.mem /\ emitted.mem[k] = F(0))

\* C13 witness: a service scraped earlier has left the snapshot and the
\* replica gauge, and a service of the snapshot for which neither query gave
\* a sample is emitted with its replica count, CPU 0 and memory 0.
C13_Witness ==
    /\ emitted.done
    /\ \E k \in seenNonzero :
          k \notin ServiceNames(emitted.snapshot) /\ k \notin DOMAIN emitted.replicas
    /\ \E k \in ServiceNames(emitted.snapshot) :
          /\ ~SampledBy(1, k) /\ ~SampledBy(2, k)
          /\ emitted.cpu[k] = F(0) /\ emitted.mem[k] = F(0)
          /\ emitted.replicas[k] # F(0)

\* C14: when both queries of a scrape succeeded, the gauges emitted are the
\* gauges as calc left them, and for every sample returned the gauge of its
\* "container.namespace" holds the value parsed from the last sample with
\* that key in this scrape's result, whatever earlier scrapes had set.
C14_SetNotAccumulate ==
    (emitted.done /\ Answers(1) /\ Answers(2)) =>
       /\ emitted.cpu = cpuGauge /\ emitted.mem = memGauge
       /\ HoldsLastValues(emitted.cpu, emitted.issued[1].o.Result)
       /\ HoldsLastValues(emitted.mem, emitted.issued[2].o.Result)

\* C14 witness: the CPU query returned 5 and then 6 for a service that an
\* earlier scrape had left with a nonzero gauge, the memory query returned a
\* value that does not parse, and the CPU gauge of the service is 6.
C14_Witness ==
    /\ emitted.done /\ Answers(1) /\ Answers(2)
    /\ Len(emitted.issued[1].o.Result) = 2
    /\ emitted.issued[1].o.Result[1].Value = <<"5">>
    /\ emitted.issued[1].o.Result[2].Value = <<"6">>
    /\ emitted.issued[2].o.Result # <<>>
    /\ SampleKey(emitted.issued[1].o.Result[1]) \in seenNonzero
    /\ emitted.cpu[SampleKey(emitted.issued[1].o.Result[1])] = F(6)

\* C17: a scrape whose CPU query failed issued no memory query and emits the
\* CPU and memory gauges of every service of the snapshot as 0; a scrape whose
\* CPU query succeeded and whose memory query failed emits the CPU gauges with
\* the values of the CPU samples and the memory gauge of every service of the
\* snapshot as 0.
C17_CalcStopsAtError ==
    emitted.done =>
       /\ emitted.issued[1].q = "cpu"
       /\ emitted.issued[1].o.err =>
             /\ Len(emitted.issued) = 1
             /\ \A k \in ServiceNames(emitted.snapshot) :
                   emitted.cpu[k] = F(0) /\ emitted.mem[k] = F(0)
       /\ ~emitted.issued[1].o.err =>
             /\ Len(emitted.issued) = 2 /\ emitted.issued[2].q = "memory"
             /\ emitted.issued[2].o.err =>
                   /\ HoldsLastValues(emitted.cpu, emitted.issued[1].o.Result)
                   /\ \A k \in ServiceNames(emitted.snapshot) : emitted.mem[k] = F(0)

\* C17 witness: the CPU query gave a nonzero value for a service of the
\* snapshot, the memory query failed, and the service is emitted with that
\* CPU value and memory 0.
C17_Witness ==
    /\ emitted.done
    /\ Answers(1)
    /\ Len(emitted.issued) = 2 /\ emitted.issued[2].o.err
    /\ \E k \in ServiceNames(emitted.snapshot) :
          SampledBy(1, k) /\ emitted.cpu[k] # F(0) /\ emitted.mem[k] = F(0)

----------------------------------------------------------------------------
\* What the claims about the watcher speak of.

\* The lists the successful calls returned, one after the other.
RECURSIVE ConcatSucceeded(_)
ConcatSucceeded(asked) ==
    IF asked = <<>> THEN <<>>
    ELSE (IF Head(asked).r.err THEN <<>> ELSE Head(asked).r.services)
         \o ConcatSucceeded(Tail(asked))

\* C11: after a tick whose namespace list is not empty, every namespace of the
\* list has been asked, in the order of the list, and the snapshot is the
\* concatenation in that order of the lists of the namespaces whose fetch
\* succeeded; the namespaces whose fetch failed add nothing, and the snapshot
\* is stored whether or not a fetch failed.
C11_ConcatOfSucceeded ==
    (watched.done /\ Len(watched.listing.namespaces) > 0) =>
       /\ Len(watched.asked) = Len(watched.listing.namespaces)
       /\ \A j \in 1..Len(watched.asked) :
             watched.asked[j].namespace = watched.listing.namespaces[j]
       /\ services = ConcatSucceeded(watched.asked)

\* C11 witness: of two namespaces the first failed, having decoded a record
\* before its error, the second listed a function, and the snapshot, which was
\* another list before, is the second namespace's list.
C11_Witness ==
    /\ watched.done
    /\ Len(watched.asked) = 2
    /\ watched.asked[1].r.err /\ watched.asked[1].r.services # <<>>
    /\ ~watched.asked[2].r.err /\ watched.asked[2].r.services # <<>>
    /\ services = watched.asked[2].r.services
    /\ watched.before # services

\* C12: a 404 to the namespace listing gives an empty list and no error, and
\* after a tick whose namespace list is empty exactly one fetch was made, of
\* Exporter.FunctionNamespace, whose list, if the fetch succeeded, is the
\* snapshot.
C12_NotFoundThenDefault ==
    watched.done =>
       /\ watched.reply = "not-found" =>
             watched.listing = [namespaces |-> <<>>, err |-> FALSE]
       /\ Len(watched.listing.namespaces) = 0 =>
             /\ Len(watched.asked) = 1
             /\ watched.asked[1].namespace = FunctionNamespace
             /\ ~watched.asked[1].r.err => services = watched.asked[1].r.services

\* C12 witness: the listing was answered 404, the default namespace listed a
\* function and that list has replaced another snapshot.
C12_Witness ==
    /\ watched.done
    /\ watched.reply = "not-found"
    /\ ~watched.asked[1].r.err
    /\ services = watched.asked[1].r.services
    /\ services # <<>>
    /\ watched.before # services

\* C16: after a tick whose namespace list is empty and whose fetch of the
\* default namespace failed, the snapshot is the one from before the tick.
C16_DefaultFailureKeeps ==
    (watched.done /\ Len(watched.listing.namespaces) = 0 /\ watched.asked[1].r.err)
       => services = watched.before

\* C16 witness: the listing failed, the fetch of the default namespace failed
\* having decoded a record, and a snapshot that is neither empty nor that
\* record is still in place.
C16_Witness ==
    /\ watched.done
    /\ watched.listing = [namespaces |-> <<>>, err |-> TRUE]
    /\ watched.asked[1].r.err /\ watched.asked[1].r.services # <<>>
    /\ services # <<>>
    /\ services # watched.asked[1].r.services
    /\ services = watched.before

----------------------------------------------------------------------------
\* The watcher's goroutine against a concurrent Collect.  Exporter.services is
\* a slice header of several words, written by "e.services = services" and read
\* by "range e.services" with no lock or atomic: each word is stored and loaded
\* on its own, in an order the build chooses.  A backing array is never written
\* after its slice is stored, so ptr stands for the array's contents.

\* What a load finds past the end of a backing array.
Garbage == Service(<<"?">>, <<"?">>, 0)

SnapshotLists == DistinctSeqsUpTo(ListedIn(<<"a">>), MaxServices)

\* The list that ranging over the loaded header visits.
Iterated(h) == [i \in 1..h.len |-> IF i <= Len(h.ptr) THEN h.ptr[i] ELSE Garbage]

InitRace == RaceIdle /\ MixIdle /\ HandlerIdle /\ ExporterIdle

\* Lines 110-134: a tick has built its local services list.
WatcherBuild(new) ==
    /\ wpc = "wait"
    /\ wnew' = [old |-> hdr.ptr, new |-> new]
    /\ wpc' = "store"
    /\ stored' = stored \cup {new}
    /\ UNCHANGED <<hdr, cpc, rd, mixVars, handlerVars, exporterVars>>

\* Line 136 (and 124), the pointer word.
StorePtr ==
    /\ wpc \in {"store", "len-stored"}
    /\ hdr' = [hdr EXCEPT !.ptr = wnew.new]
    /\ wpc' = IF wpc = "store" THEN "ptr-stored" ELSE "wait"
    /\ UNCHANGED <<wnew, cpc, rd, stored, mixVars, handlerVars, exporterVars>>

\* Line 136 (and 124), the length word.
StoreLen ==
    /\ wpc \in {"store", "ptr-stored"}
    /\ hdr' = [hdr EXCEPT !.len = Len(wnew.new)]
    /\ wpc' = IF wpc = "store" THEN "len-stored" ELSE "wait"
    /\ UNCHANGED <<wnew, cpc, rd, stored, mixVars, handlerVars, exporterVars>>

\* Collect reaches line 71.  stored starts over: the lists stored whole that
\* this Collect can meet are the one in place (or the two a store in progress
\* is between) and those of the ticks to come.
CollectBegin ==
    /\ cpc = "idle"
    /\ cpc' = "load"
    /\ stored' = IF wpc = "wait" THEN {hdr.ptr} ELSE {wnew.old, wnew.new}
    /\ UNCHANGED <<hdr, wpc, wnew, rd, mixVars, handlerVars, exporterVars>>

\* Line 71, the pointer word.
LoadPtr ==
    /\ cpc \in {"load", "len-loaded"}
    /\ rd' = [rd EXCEPT !.ptr = hdr.ptr]
    /\ cpc' = IF cpc = "load" THEN "ptr-loaded" ELSE "iterate"
    /\ UNCHANGED <<hdr, wpc, wnew, stored, mixVars, handlerVars, exporterVars>>

\* Line 71, the length word.
LoadLen ==
    /\ cpc \in {"load", "ptr-loaded"}
    /\ rd' = [rd EXCEPT !.len = hdr.len]
    /\ cpc' = IF cpc = "load" THEN "len-loaded" ELSE "iterate"
    /\ UNCHANGED <<hdr, wpc, wnew, stored, mixVars, handlerVars, exporterVars>>

\* Lines 71-98: the loop over the loaded header and the rest of Collect.
CollectReturn ==
    /\ cpc = "iterate"
    /\ cpc' = "idle"
    /\ UNCHANGED <<hdr, wpc, wnew, rd, stored, mixVars, handlerVars, exporterVars>>

NextRace ==
    \/ \E new \in SnapshotLists : WatcherBuild(new)
    \/ StorePtr
    \/ StoreLen
    \/ CollectBegin
    \/ LoadPtr
    \/ LoadLen
    \/ CollectReturn

SpecRace == InitRace /\ [][NextRace]_vars

\* C3: the list a Collect iterates is one of the lists stored whole: the one
\* in place when it began or one stored by a tick since.
C3_WholeSnapshot == cpc = "iterate" => Iterated(rd) \in stored

=============================================================================
